---- MODULE Spec2Model ----
(***************************************************************************)
(* FY2026 DoD budget downloader (download_fy2026_budget.py).               *)
(*                                                                         *)
(* main() walks four static lists in order, calls download_file for each  *)
(* entry, tallies the (success, message) result, sleeps, and prints a     *)
(* summary.  The model keeps the file tree, the counters and the failure  *)
(* list of main(), and history variables for the calls that were made.    *)
(* The HTTP server and the operating system are the environment: for each *)
(* call they choose where, if anywhere, the call fails.                   *)
(***************************************************************************)
EXTENDS Integers, Sequences, FiniteSets, TLC

VARIABLES
    pc,             \* where main() is: "army", "af", "dw", "dod", "summary", "done", "crashed"
    i,              \* 1-based index of the current entry in the current list
    sleeping,       \* TRUE between the tally of an entry and the end of its time.sleep
    success_count,  \* main's success_count
    fail_count,     \* main's fail_count
    failures,       \* main's failures: sequence of <<label, url, msg>>
    fs,             \* file system: destination path -> bytes, or NoFile
    dirs,           \* file system: set of existing directories
    calls,          \* history: <<url, dest_path>> of every download_file call, in order
    returns,        \* history: <<ok, msg>> of every download_file call that returned
    outcomes,       \* history: what the environment did to each call that returned
    sleeps,         \* history: the duration of every time.sleep, in tenths of a second
    report,         \* the summary printed so far: sequence of report records
    raised,         \* the exception that left main(), or NoExc
    pre             \* the file system main() started with (never changes)

vars == << pc, i, sleeping, success_count, fail_count, failures, fs, dirs,
           calls, returns, outcomes, sleeps, report, raised, pre >>

----------------------------------------------------------------------------
(* Bounds of the model *)

\* main() runs over the first GroupLen + 1 entries of ARMY_FILES and the first
\* GroupLen entries of each of the other three lists
GroupLen == 1

\* the environment makes at most MaxFail calls fail in one run
MaxFail == 2

----------------------------------------------------------------------------
(* The static manifest *)

OUTPUT_DIR == "fy2026_budget"

ARMY_BASE == "https://www.asafm.army.mil/Portals/72/Documents/BudgetMaterial/2026/Discretionary%20Budget"

AF_BASE == "https://www.saffm.hq.af.mil/Portals/84/documents/FY26"

DW_BASE == "https://comptroller.war.gov/Portals/45/Documents/defbudget/FY2026/budget_justification/pdfs"

\* (category, filename, ext) of the Army files
ARMY_FILES ==
    << <<"Military Personnel", "Military Personnel Army Volume 1", "xml">>,
       <<"Military Personnel", "Reserve Personnel Army Volume 1", "xml">>,
       <<"Military Personnel", "National Guard Personnel Army Volume 1", "xml">>,
       <<"Operation and Maintenance", "Regular Army Operation and Maintenance Volume 1", "json">>,
       <<"Operation and Maintenance", "Regular Army Operation and Maintenance Volume 2", "json">>,
       <<"Operation and Maintenance", "Reserve Army Operation and Maintenance Overview", "xml">>,
       <<"Operation and Maintenance", "Reserve Army Operation and Maintenance", "xml">>,
       <<"Operation and Maintenance", "National Guard Army Operation and Maintenance Overview", "xml">>,
       <<"Operation and Maintenance", "National Guard Army Operation and Maintenance", "xml">>,
       <<"Procurement", "Aircraft Procurement Army", "xml">>,
       <<"Procurement", "Missile Procurement Army", "xml">>,
       <<"Procurement", "Other Procurement - BA1 - Tactical & Support Vehicles", "xml">>,
       <<"Procurement", "Other Procurement - BA2 - Communications & Electronics", "xml">>,
       <<"Procurement", "Other Procurement - BA 3, 4 & 6 - Other Support Equipment, Initial Spares and Agile Portfolio Management", "xml">>,
       <<"Procurement", "Procurement of Ammunition", "xml">>,
       <<"Procurement", "Procurement of Weapons and Tracked Combat Vehicles", "xml">>,
       <<"rdte", "RDTE - Vol 1 - Budget Activity 1", "xml">>,
       <<"rdte", "RDTE - Vol 1 - Budget Activity 2", "xml">>,
       <<"rdte", "RDTE - Vol 1 - Budget Activity 3", "xml">>,
       <<"rdte", "RDTE - Vol 2 - Budget Activity 4A", "xml">>,
       <<"rdte", "RDTE - Vol 2 - Budget Activity 4B", "xml">>,
       <<"rdte", "RDTE - Vol 3 - Budget Activity 5A", "xml">>,
       <<"rdte", "RDTE - Vol 3 - Budget Activity 5B", "xml">>,
       <<"rdte", "RDTE - Vol 3 - Budget Activity 5C", "xml">>,
       <<"rdte", "RDTE - Vol 3 - Budget Activity 5D", "xml">>,
       <<"rdte", "RDTE - Vol 4 - Budget Activity 6", "xml">>,
       <<"rdte", "RDTE - Vol 4 - Budget Activity 7", "xml">>,
       <<"rdte", "RDTE - Vol 4 - Budget Activity 8", "xml">>,
       <<"rdte", "RDTE - Vol 4 - Budget Activity 9", "xml">>,
       <<"Military Construction", "Regular Army Military Construction, Army Family Housing and Homeowners Assistance", "xml">>,
       <<"Military Construction", "Reserve Army Military Construction", "xml">>,
       <<"Military Construction", "National Guard Army Military Construction", "xml">>,
       <<"Military Construction", "Base Realignment and Closure Account", "xml">>,
       <<"awcf", "Army Working Capital Fund", "xml">>,
       <<"camdd", "Chemical Agents and Munitions Destruction, Defense", "xml">>,
       <<"U.S. Army Cemeterial Expenses and Construction", "U.S. Army Cemeterial Expenses and Construction", "xml">>,
       <<"Other Funds", "Counter-Islamic State of Iraq and Syria Train and Equip Fund", "xml">> >>

\* (category, filename, ext) of the Air Force and Space Force files
AF_FILES ==
    << <<"BRAC", "FY26 Base Realignment and Closure", "xml">>,
       <<"MILCON", "FY26 Air Force MILCON", "xml">>,
       <<"MILCON", "FY26 Air National Guard MILCON", "xml">>,
       <<"MILCON", "FY26 Air Force Reserve MILCON", "xml">>,
       <<"MILPERS", "FY26 Air Force MILPERS", "xml">>,
       <<"MILPERS", "FY26 Air National Guard MILPERS", "xml">>,
       <<"MILPERS", "FY26 Air Force Reserves MILPERS", "xml">>,
       <<"MILPERS", "FY26 Space Force MILPERS", "xml">>,
       <<"O&M", "FY26 Air Force Operations and Maintenance Vol I", "xml">>,
       <<"O&M", "FY26 Air Force Operations and Maintenance Vol II", "xml">>,
       <<"O&M", "FY26 Air National Guard Operation and Maintenance Vol I", "xml">>,
       <<"O&M", "FY26 Air National Guard Operation and Maintenance Vol II", "xml">>,
       <<"O&M", "FY26 Air Force Reserve Operations and Maintenance Vol I", "xml">>,
       <<"O&M", "FY26 Air Force Reserve Operations and Maintenance Vol II", "xml">>,
       <<"O&M", "FY26 Space Force Operations and Maintenance Vol I", "xml">>,
       <<"O&M", "FY26 Space Force Operations and Maintenance Vol II", "xml">>,
       <<"Procurement", "FY26 Air Force Aircraft Procurement Vol I", "xml">>,
       <<"Procurement", "FY26 Air Force Aircraft Procurement Vol II", "xml">>,
       <<"Procurement", "FY26 Air Force Ammunition Procurement", "xml">>,
       <<"Procurement", "FY26 Air Force Missile Procurement", "xml">>,
       <<"Procurement", "FY26 Air Force Other Procurement", "xml">>,
       <<"Procurement", "FY26 Space Force Procurement", "xml">>,
       <<"RDTE", "FY26 Air Force Research and Development Test and Evaluation Vol I", "xml">>,
       <<"RDTE", "FY26 Air Force Research and Development Test and Evaluation Vol II", "xml">>,
       <<"RDTE", "FY26 Air Force Research and Development Test and Evaluation Vol III", "xml">>,
       <<"RDTE", "FY26 Space Force Research and Development Test and Evaluation Vol I", "xml">>,
       <<"RDTE", "FY26 Space Force Research and Development Test and Evaluation Vol II", "xml">> >>

\* (category, path, filename, ext) of the Defense-Wide files
DW_FILES ==
    << <<"O&M", "01_Operation_and_Maintenance/O_M_VOL_1_PART_1", "OM_Volume1_Part1", "json">>,
       <<"O&M", "01_Operation_and_Maintenance/O_M_VOL_1_PART_2", "OM_Volume1_Part_2", "json">>,
       <<"O&M", "01_Operation_and_Maintenance/O_M_VOL_2", "Volume_2", "json">>,
       <<"O&M_Agencies", "01_Operation_and_Maintenance/O_M_VOL_1_PART_1", "Overview_(Part_1)", "json">>,
       <<"O&M_Agencies", "01_Operation_and_Maintenance/O_M_VOL_1_PART_1", "Summary_by_Agency_(Part_1)", "json">>,
       <<"O&M_Agencies", "01_Operation_and_Maintenance/O_M_VOL_1_PART_1", "O-1_Summary_(Part_1)", "json">>,
       <<"O&M_Agencies", "01_Operation_and_Maintenance/O_M_VOL_1_PART_1", "OP-32A_Summary_(Part_1)", "json">>,
       <<"O&M_Agencies", "01_Operation_and_Maintenance/O_M_VOL_1_PART_1", "CMP_OP-5", "json">>,
       <<"O&M_Agencies", "01_Operation_and_Maintenance/O_M_VOL_1_PART_1", "CYBERCOM_OP-5", "json">>,
       <<"O&M_Agencies", "01_Operation_and_Maintenance/O_M_VOL_1_PART_1", "CYBERCOM_Headquarters_OP-5", "json">>,
       <<"O&M_Agencies", "01_Operation_and_Maintenance/O_M_VOL_1_PART_1", "Cyberspace_Operations_OP-5", "json">>,
       <<"O&M_Agencies", "01_Operation_and_Maintenance/O_M_VOL_1_PART_1", "DAU_OP-5", "json">>,
       <<"O&M_Agencies", "01_Operation_and_Maintenance/O_M_VOL_1_PART_1", "DCAA_Cyber_OP-5", "json">>,
       <<"O&M_Agencies", "01_Operation_and_Maintenance/O_M_VOL_1_PART_1", "DCAA_OP-5", "json">>,
       <<"O&M_Agencies", "01_Operation_and_Maintenance/O_M_VOL_1_PART_1", "DCMA_Cyber_OP-5", "json">>,
       <<"O&M_Agencies", "01_Operation_and_Maintenance/O_M_VOL_1_PART_1", "DCMA_OP-5", "json">>,
       <<"O&M_Agencies", "01_Operation_and_Maintenance/O_M_VOL_1_PART_1", "DCSA_Cyber_OP-5", "json">>,
       <<"O&M_Agencies", "01_Operation_and_Maintenance/O_M_VOL_1_PART_1", "DCSA_OP-5", "json">>,
       <<"O&M_Agencies", "01_Operation_and_Maintenance/O_M_VOL_1_PART_1", "DHRA_Cyber_OP-5", "json">>,
       <<"O&M_Agencies", "01_Operation_and_Maintenance/O_M_VOL_1_PART_1", "DHRA_OP-5", "json">>,
       <<"O&M_Agencies", "01_Operation_and_Maintenance/O_M_VOL_1_PART_1", "DISA_Cyber_OP-5", "json">>,
       <<"O&M_Agencies", "01_Operation_and_Maintenance/O_M_VOL_1_PART_1", "DISA_OP-5", "json">>,
       <<"O&M_Agencies", "01_Operation_and_Maintenance/O_M_VOL_1_PART_1", "DLA_OP-5", "json">>,
       <<"O&M_Agencies", "01_Operation_and_Maintenance/O_M_VOL_1_PART_1", "DLSA_OP-5", "json">>,
       <<"BRAC", "05_BRAC", "FY2026_BRAC_Overview", "xml">> >>

\* (url, subfolder, fname) of the DoD summary files
DOD_SUMMARY ==
    << <<"https://comptroller.war.gov/Portals/45/Documents/defbudget/FY2026/m1_display.xlsx", "DoD_Summary", "FY2026_M1_Military_Personnel.xlsx">>,
       <<"https://comptroller.war.gov/Portals/45/Documents/defbudget/FY2026/o1_display.xlsx", "DoD_Summary", "FY2026_O1_Operation_Maintenance.xlsx">>,
       <<"https://comptroller.war.gov/Portals/45/Documents/defbudget/FY2026/rf1_display.xlsx", "DoD_Summary", "FY2026_RF1_Revolving_Management_Fund.xlsx">>,
       <<"https://comptroller.war.gov/Portals/45/Documents/defbudget/FY2026/p1_display.xlsx", "DoD_Summary", "FY2026_P1_Procurement.xlsx">>,
       <<"https://comptroller.war.gov/Portals/45/Documents/defbudget/FY2026/p1r_display.xlsx", "DoD_Summary", "FY2026_P1R_Procurement_Reserve.xlsx">>,
       <<"https://comptroller.war.gov/Portals/45/Documents/defbudget/FY2026/r1_display.xlsx", "DoD_Summary", "FY2026_R1_RDTE.xlsx">>,
       <<"https://comptroller.war.gov/Portals/45/Documents/defbudget/FY2026/c1.xlsx", "DoD_Summary", "FY2026_C1_MilCon_FamilyHousing_BRAC.xlsx">>,
       <<"https://comptroller.war.gov/Portals/45/Documents/defbudget/FY2026/FY2026_Pacific_Deterrence_Initiative.json", "DoD_Summary", "FY2026_Pacific_Deterrence_Initiative.json">>,
       <<"https://comptroller.war.gov/Portals/45/Documents/defbudget/FY2026/FY2026_Drug_Interdiction_and_Counter-Drug_Activities.json", "DoD_Summary", "FY2026_Drug_Interdiction_Counter_Drug.json">> >>

----------------------------------------------------------------------------
(* Strings.  A string is handled one character at a time with SubSeq. *)

CharAt(s, k) == SubSeq(s, k, k)

\* str.replace(ch, rep) for a one-character ch (the string is halved at each
\* step to keep the recursion shallow)
RECURSIVE Replace(_, _, _)
Replace(s, ch, rep) ==
    IF s = "" THEN ""
    ELSE IF Len(s) = 1 THEN (IF s = ch THEN rep ELSE s)
    ELSE LET h == Len(s) \div 2
         IN  Replace(SubSeq(s, 1, h), ch, rep) \o Replace(SubSeq(s, h + 1, Len(s)), ch, rep)

\* the characters of r'\/:*?"<>|', in the order the loop visits them
IllegalChars == << "\\", "/", ":", "*", "?", "\"", "<", ">", "|" >>

RECURSIVE ReplaceEach(_, _, _)
ReplaceEach(name, chars, k) ==
    IF k > Len(chars) THEN name
    ELSE ReplaceEach(Replace(name, chars[k], "_"), chars, k + 1)

\* safe_filename(name): every illegal character becomes "_"
safe_filename(name) == ReplaceEach(name, IllegalChars, 1)

\* characters urllib.parse.quote never encodes: unreserved ones and the default safe "/"
QuoteSafe ==
    "ABCDEFGHIJKLMNOPQRSTUVWXYZabcdefghijklmnopqrstuvwxyz0123456789_.-~/"

Contains(s, ch) == \E k \in 1..Len(s) : CharAt(s, k) = ch

\* percent-encoding of the printable ASCII characters that are not in QuoteSafe
\* (all but the backquote, which a TLA+ string cannot hold)
PctEncode(ch) ==
    CASE ch = " "  -> "%20" [] ch = "!"  -> "%21" [] ch = "\"" -> "%22"
      [] ch = "#"  -> "%23" [] ch = "$"  -> "%24" [] ch = "%"  -> "%25"
      [] ch = "&"  -> "%26" [] ch = "'"  -> "%27" [] ch = "("  -> "%28"
      [] ch = ")"  -> "%29" [] ch = "*"  -> "%2A" [] ch = "+"  -> "%2B"
      [] ch = ","  -> "%2C" [] ch = ":"  -> "%3A" [] ch = ";"  -> "%3B"
      [] ch = "<"  -> "%3C" [] ch = "="  -> "%3D" [] ch = ">"  -> "%3E"
      [] ch = "?"  -> "%3F" [] ch = "@"  -> "%40" [] ch = "["  -> "%5B"
      [] ch = "\\" -> "%5C" [] ch = "]"  -> "%5D" [] ch = "^"  -> "%5E"
      [] ch = "{"  -> "%7B" [] ch = "|"  -> "%7C" [] ch = "}"  -> "%7D"

\* urllib.parse.quote(s) with its default safe="/"
RECURSIVE quote(_)
quote(s) ==
    IF s = "" THEN ""
    ELSE IF Len(s) = 1 THEN (IF Contains(QuoteSafe, s) THEN s ELSE PctEncode(s))
    ELSE LET h == Len(s) \div 2
         IN  quote(SubSeq(s, 1, h)) \o quote(SubSeq(s, h + 1, Len(s)))

\* os.path.join of two components (POSIX): an absolute b discards a
Join2(a, b) ==
    IF b # "" /\ CharAt(b, 1) = "/" THEN b
    ELSE IF a = "" \/ CharAt(a, Len(a)) = "/" THEN a \o b
    ELSE a \o "/" \o b

\* os.path.join(parts[1], ..., parts[n])
RECURSIVE JoinFrom(_, _, _)
JoinFrom(acc, parts, k) ==
    IF k > Len(parts) THEN acc ELSE JoinFrom(Join2(acc, parts[k]), parts, k + 1)

path_join(parts) == JoinFrom(parts[1], parts, 2)

\* index of the last "/" of p, 0 if there is none
LastSlash(p) ==
    LET S == { k \in 1..Len(p) : CharAt(p, k) = "/" }
    IN  IF S = {} THEN 0 ELSE CHOOSE k \in S : \A j \in S : j <= k

\* p without trailing slashes, unless p is all slashes
RECURSIVE RStripSlash(_)
RStripSlash(p) ==
    IF p # "" /\ CharAt(p, Len(p)) = "/" THEN RStripSlash(SubSeq(p, 1, Len(p) - 1))
    ELSE p

AllSlashes(p) == RStripSlash(p) = ""

\* os.path.dirname(p) (POSIX)
dirname(p) ==
    LET k    == LastSlash(p)
        head == SubSeq(p, 1, k)
    IN  IF head # "" /\ ~AllSlashes(head) THEN RStripSlash(head) ELSE head

\* the directories os.makedirs(d) makes sure exist: d and all its ancestors
RECURSIVE Ancestors(_)
Ancestors(d) ==
    IF d = "" \/ AllSlashes(d) THEN {}
    ELSE {d} \cup Ancestors(dirname(d))

----------------------------------------------------------------------------
(* What main() computes for an entry of each list: url, out_path, label *)

\* Army loop: the url is the quoted "category/filename.ext" under ARMY_BASE
ArmyEntry(t) ==
    LET category == t[1]
        filename == t[2]
        ext      == t[3]
        encoded  == quote(category \o "/" \o filename \o "." \o ext)
    IN  [ url      |-> ARMY_BASE \o "/" \o encoded,
          out_path |-> path_join(<< OUTPUT_DIR, "Army", safe_filename(category),
                                    safe_filename(filename) \o "." \o ext >>),
          label    |-> "Army/" \o category \o "/" \o filename \o "." \o ext ]

\* Air Force loop: the url is the quoted "filename.ext" under AF_BASE
AFEntry(t) ==
    LET category     == t[1]
        filename     == t[2]
        ext          == t[3]
        encoded_name == quote(filename \o "." \o ext)
    IN  [ url      |-> AF_BASE \o "/" \o encoded_name,
          out_path |-> path_join(<< OUTPUT_DIR, "AirForce", safe_filename(category),
                                    safe_filename(filename) \o "." \o ext >>),
          label    |-> "AF/" \o category \o "/" \o filename \o "." \o ext ]

\* Defense-Wide loop: the url is DW_BASE/path/filename.ext, not quoted
DWEntry(t) ==
    LET category == t[1]
        path     == t[2]
        filename == t[3]
        ext      == t[4]
    IN  [ url      |-> DW_BASE \o "/" \o path \o "/" \o filename \o "." \o ext,
          out_path |-> path_join(<< OUTPUT_DIR, "DefenseWide", safe_filename(category),
                                    safe_filename(filename) \o "." \o ext >>),
          label    |-> "DW/" \o category \o "/" \o filename \o "." \o ext ]

\* variant of DoDEntry: the file name is left out of the destination path
DoDEntry_without_fname(t) ==
    LET url       == t[1]
        subfolder == t[2]
        fname     == t[3]
    IN  [ url      |-> url,
          out_path |-> path_join(<< OUTPUT_DIR, subfolder >>),
          label    |-> fname ]

\* DoD Summary loop: the url is given, the label is the file name
DoDEntry(t) ==
    LET url       == t[1]
        subfolder == t[2]
        fname     == t[3]
    IN  [ url      |-> url,
          out_path |-> path_join(<< OUTPUT_DIR, subfolder, fname >>),
          label    |-> fname ]

\* the entry record of the k-th tuple of the list main() walks at position p
EntryOf(p, t) ==
    CASE p = "army" -> ArmyEntry(t)
      [] p = "af"   -> AFEntry(t)
      [] p = "dw"   -> DWEntry(t)
      [] p = "dod"  -> DoDEntry(t)

\* the four loops of main(), in program order
Groups == << "army", "af", "dw", "dod" >>

FullList(p) ==
    CASE p = "army" -> ARMY_FILES
      [] p = "af"   -> AF_FILES
      [] p = "dw"   -> DW_FILES
      [] p = "dod"  -> DOD_SUMMARY

Min(a, b) == IF a < b THEN a ELSE b

\* how many tuples of a list a run of the model walks
RunLen(p) == Min(IF p = "army" THEN GroupLen + 1 ELSE GroupLen, Len(FullList(p)))

\* the part of a list that a run of the model walks
RunList(p) == SubSeq(FullList(p), 1, RunLen(p))

\* entry records of the whole manifest and of the part a run walks, per list
FullEntries == [ p \in {"army", "af", "dw", "dod"} |->
                   [ k \in 1..Len(FullList(p)) |-> EntryOf(p, FullList(p)[k]) ] ]

RunEntries == [ p \in {"army", "af", "dw", "dod"} |->
                  [ k \in 1..Len(RunList(p)) |-> FullEntries[p][k] ] ]

\* the same, flattened in the order main() visits them
Manifest == FullEntries["army"] \o FullEntries["af"] \o FullEntries["dw"] \o FullEntries["dod"]

RunManifest == RunEntries["army"] \o RunEntries["af"] \o RunEntries["dw"] \o RunEntries["dod"]

RunPaths == { RunManifest[k].out_path : k \in 1..Len(RunManifest) }

----------------------------------------------------------------------------
(* The environment: the server's responses and the failures of a call *)

\* length of the body the server sends for the n-th download_file call of a run
BodyLen(n) == << 4, 3, 0, 2 >>[(n % 4) + 1]

\* the bytes resp.read() returns for the n-th call
Response(n) == [ j \in 1..BodyLen(n) |-> (31 * n + j) % 256 ]

\* what a destination file holds in a tree left by an earlier run
Stale == << 255, 254, 253 >>

NoExc == [ cls |-> "none", code |-> 0, reason |-> "", text |-> "" ]

\* exceptions the calls of download_file raise: class, HTTP code, e.reason, str(e)
HTTPError404 ==
    [ cls |-> "HTTPError", code |-> 404, reason |-> "Not Found",
      text |-> "HTTP Error 404: Not Found" ]

URLErrorRefused ==
    [ cls |-> "URLError", code |-> 0, reason |-> "[Errno 111] Connection refused",
      text |-> "<urlopen error [Errno 111] Connection refused>" ]

ReadTimeout ==
    [ cls |-> "TimeoutError", code |-> 0, reason |-> "",
      text |-> "The read operation timed out" ]

PermissionDenied(path) ==
    [ cls |-> "PermissionError", code |-> 0, reason |-> "",
      text |-> "[Errno 13] Permission denied: '" \o path \o "'" ]

NotADirectory(path) ==
    [ cls |-> "NotADirectoryError", code |-> 0, reason |-> "",
      text |-> "[Errno 20] Not a directory: '" \o path \o "'" ]

FileExists(path) ==
    [ cls |-> "FileExistsError", code |-> 0, reason |-> "",
      text |-> "[Errno 17] File exists: '" \o path \o "'" ]

NoSpace ==
    [ cls |-> "OSError", code |-> 0, reason |-> "",
      text |-> "[Errno 28] No space left on device" ]

FileTooLarge ==
    [ cls |-> "OSError", code |-> 0, reason |-> "",
      text |-> "[Errno 27] File too large" ]

\* the base classes of an exception class that are exceptions themselves, for
\* the built-in exceptions and those of urllib.error, http.client, socket, ssl,
\* io, shutil and json; BaseException has none, and a class that is not listed
\* is taken to derive from Exception alone
BasesOf(cls) ==
    CASE cls \in {"FloatingPointError", "OverflowError", "ZeroDivisionError"}
            -> {"ArithmeticError"}
      [] cls \in {"BaseExceptionGroup", "Exception", "GeneratorExit",
            "KeyboardInterrupt", "SystemExit"}
            -> {"BaseException"}
      [] cls \in {"ExceptionGroup"}
            -> {"BaseExceptionGroup", "Exception"}
      [] cls \in {"BrokenPipeError", "ConnectionAbortedError",
            "ConnectionRefusedError", "ConnectionResetError"}
            -> {"ConnectionError"}
      [] cls \in {"RemoteDisconnected"}
            -> {"ConnectionResetError", "BadStatusLine"}
      [] cls \in {"SameFileError"}
            -> {"Error"}
      [] cls \in {"BadStatusLine", "ImproperConnectionState", "IncompleteRead",
            "InvalidURL", "LineTooLong", "NotConnected",
            "UnimplementedFileMode", "UnknownProtocol",
            "UnknownTransferEncoding"}
            -> {"HTTPException"}
      [] cls \in {"ModuleNotFoundError"}
            -> {"ImportError"}
      [] cls \in {"CannotSendHeader", "CannotSendRequest", "ResponseNotReady"}
            -> {"ImproperConnectionState"}
      [] cls \in {"TabError"}
            -> {"IndentationError"}
      [] cls \in {"IndexError", "KeyError"}
            -> {"LookupError"}
      [] cls \in {"UnboundLocalError"}
            -> {"NameError"}
      [] cls \in {"BlockingIOError", "ChildProcessError", "ConnectionError",
            "Error", "ExecError", "FileExistsError",
            "FileNotFoundError", "InterruptedError",
            "IsADirectoryError", "NotADirectoryError",
            "PermissionError", "ProcessLookupError", "ReadError",
            "SSLError", "SpecialFileError", "TimeoutError",
            "URLError", "gaierror", "herror"}
            -> {"OSError"}
      [] cls \in {"UnsupportedOperation"}
            -> {"OSError", "ValueError"}
      [] cls \in {"NotImplementedError", "RecursionError"}
            -> {"RuntimeError"}
      [] cls \in {"SSLEOFError", "SSLSyscallError", "SSLWantReadError",
            "SSLWantWriteError", "SSLZeroReturnError"}
            -> {"SSLError"}
      [] cls \in {"SSLCertVerificationError"}
            -> {"SSLError", "ValueError"}
      [] cls \in {"IndentationError"}
            -> {"SyntaxError"}
      [] cls \in {"ContentTooShortError", "HTTPError"}
            -> {"URLError"}
      [] cls \in {"UnicodeDecodeError", "UnicodeEncodeError",
            "UnicodeTranslateError"}
            -> {"UnicodeError"}
      [] cls \in {"JSONDecodeError", "UnicodeError"}
            -> {"ValueError"}
      [] cls \in {"BytesWarning", "DeprecationWarning", "EncodingWarning",
            "FutureWarning", "ImportWarning",
            "PendingDeprecationWarning", "ResourceWarning",
            "RuntimeWarning", "SyntaxWarning", "UnicodeWarning",
            "UserWarning"}
            -> {"Warning"}
      [] cls \in {"BaseException"}
            -> {}
      [] OTHER -> {"Exception"}

\* isinstance(e, C) for an exception of class cls: C is cls or an ancestor of
\* cls along any of its bases
RECURSIVE IsInstance(_, _)
IsInstance(cls, C) ==
    \/ cls = C
    \/ \E b \in BasesOf(cls) : IsInstance(b, C)

\* an outcome says at which stage the call fails and with what, how many bytes
\* reached the file when the write fails, and for which directory mkdir was
\* refused when os.makedirs fails
Success == [ stage |-> "ok", exc |-> NoExc, written |-> 0, at |-> "" ]

\* f.write(data) failing once the destination is open.  The bytes go to the
\* file when the buffer is flushed: a full device takes none of a body this
\* small, a file size limit takes the bytes up to the limit, any number short
\* of the whole body.  Nothing is flushed for an empty body, so writing it
\* cannot fail.
WriteFailures(n) ==
    IF BodyLen(n) = 0 THEN {}
    ELSE { [ stage |-> "write", exc |-> NoSpace, written |-> 0, at |-> "" ] }
           \cup { [ stage |-> "write", exc |-> FileTooLarge, written |-> k,
                    at |-> "" ] : k \in 0..(BodyLen(n) - 1) }

\* failures inside the try block for the n-th call writing dest_path
TryFailures(dest_path, n) ==
    { [ stage |-> "urlopen", exc |-> HTTPError404,    written |-> 0, at |-> "" ],
      [ stage |-> "urlopen", exc |-> URLErrorRefused, written |-> 0, at |-> "" ],
      [ stage |-> "read",    exc |-> ReadTimeout,     written |-> 0, at |-> "" ],
      [ stage |-> "open",    exc |-> PermissionDenied(dest_path),
        written |-> 0, at |-> "" ] }
      \cup WriteFailures(n)

\* the regular file standing where os.makedirs(path) needs a directory, ""
\* when there is none
FileOnPath(f, path) ==
    LET s == Ancestors(path) \cap DOMAIN f
    IN  IF s = {} THEN "" ELSE CHOOSE x \in s : \A y \in s : Len(x) <= Len(y)

\* os.makedirs(name, exist_ok=True) makes the missing ancestors top-down and
\* then calls mkdir(name); the OSError of a mkdir leaves os.makedirs unless
\* name is a directory that can be seen.  mkdir can be refused permission for
\* name or any ancestor: the topmost missing one under a parent that is not
\* writable, one below a directory os.makedirs has just made (the umask gives
\* it no write permission), or one below a directory that cannot be searched.
\* When a regular file x stands on the path, the refusal can only come at x
\* or above; otherwise mkdir fails with FileExistsError for x itself and
\* with NotADirectoryError for the directory to make inside x.
MakedirsFailures(dest_path, f) ==
    LET p == dirname(dest_path)
        x == FileOnPath(f, p)
        c == CHOOSE a \in Ancestors(p) : dirname(a) = x
    IN  { [ stage |-> "makedirs", exc |-> PermissionDenied(a), written |-> 0,
            at |-> a ] : a \in IF x = "" THEN Ancestors(p) ELSE Ancestors(x) }
          \cup (IF x = "" THEN {}
                ELSE IF x = p
                     THEN { [ stage |-> "makedirs", exc |-> FileExists(p),
                              written |-> 0, at |-> p ] }
                ELSE { [ stage |-> "makedirs", exc |-> NotADirectory(c),
                         written |-> 0, at |-> c ] })

NumFailed(rets) == Cardinality({ k \in 1..Len(rets) : ~rets[k][1] })

\* the outcomes of the n-th call: os.makedirs succeeds only when no regular
\* file stands on the path
Outcomes(dest_path, n, f, rets) ==
    MakedirsFailures(dest_path, f)
      \cup (IF FileOnPath(f, dirname(dest_path)) # "" THEN {}
            ELSE {Success} \cup (IF NumFailed(rets) < MaxFail
                                 THEN TryFailures(dest_path, n) ELSE {}))

----------------------------------------------------------------------------
(* download_file *)

\* the file system f with path holding data
Put(f, path, data) ==
    [ q \in DOMAIN f \cup {path} |-> IF q = path THEN data ELSE f[q] ]

\* f"{len(data) / 1024:.1f} KB": one decimal, ties to even
FormatKB(len) ==
    LET q == (len * 10) \div 1024
        r == (len * 10) % 1024
        t == IF r > 512 \/ (r = 512 /\ q % 2 = 1) THEN q + 1 ELSE q
    IN  ToString(t \div 10) \o "." \o ToString(t % 10) \o " KB"

\* os.makedirs(path, exist_ok=True): when mkdir is refused for o.at, the
\* directories above o.at exist, made by this call if they were missing; a
\* directory that is there already is left as it is
makedirs(d, f, path, o) ==
    IF o.stage = "makedirs"
        THEN [ exc |-> o.exc,
               dirs |-> d \cup ((Ancestors(o.at) \ {o.at}) \ DOMAIN f) ]
    ELSE IF path \in d THEN [ exc |-> NoExc, dirs |-> d ]
    ELSE [ exc |-> NoExc, dirs |-> d \cup Ancestors(path) ]

\* with urlopen(req, timeout=120) as resp: data = resp.read()
fetch(url, o, n) ==
    IF o.stage \in {"urlopen", "read"} THEN [ exc |-> o.exc, data |-> << >> ]
    ELSE [ exc |-> NoExc, data |-> Response(n) ]

\* variant of write_file: the file is opened in append mode
write_file_append(f, dest_path, data, o) ==
    LET old == IF dest_path \in DOMAIN f THEN f[dest_path] ELSE << >>
    IN  IF o.stage = "open" THEN [ exc |-> o.exc, fs |-> f ]
        ELSE IF o.stage = "write"
             THEN [ exc |-> o.exc,
                    fs |-> Put(f, dest_path, old \o SubSeq(data, 1, o.written)) ]
        ELSE [ exc |-> NoExc, fs |-> Put(f, dest_path, old \o data) ]

\* with open(dest_path, "wb") as f: f.write(data)
\* opening truncates or creates the file; a failing write leaves what was written
write_file(f, dest_path, data, o) ==
    IF o.stage = "open" THEN [ exc |-> o.exc, fs |-> f ]
    ELSE IF o.stage = "write"
         THEN [ exc |-> o.exc, fs |-> Put(f, dest_path, SubSeq(data, 1, o.written)) ]
    ELSE [ exc |-> NoExc, fs |-> Put(f, dest_path, data) ]

\* variant of try_body: the destination is opened before the request is made
try_body_open_first(url, dest_path, o, n, f) ==
    LET got == fetch(url, o, n)
        put == write_file(Put(f, dest_path, << >>), dest_path, got.data, o)
    IN  IF o.stage = "open" THEN [ exc |-> o.exc, data |-> << >>, fs |-> f ]
        ELSE IF got.exc # NoExc
             THEN [ exc |-> got.exc, data |-> got.data, fs |-> Put(f, dest_path, << >>) ]
        ELSE [ exc |-> put.exc, data |-> got.data, fs |-> put.fs ]

\* the body of the try block: fetch, then write
try_body(url, dest_path, o, n, f) ==
    LET got == fetch(url, o, n)
        put == write_file(f, dest_path, got.data, o)
    IN  IF got.exc # NoExc THEN [ exc |-> got.exc, data |-> got.data, fs |-> f ]
        ELSE [ exc |-> put.exc, data |-> got.data, fs |-> put.fs ]

\* variant of except_clauses: the URLError clause comes before the HTTPError one
except_clauses_urlerror_first(e) ==
    IF IsInstance(e.cls, "URLError")
        THEN [ caught |-> TRUE, msg |-> e.reason ]
    ELSE IF IsInstance(e.cls, "HTTPError")
        THEN [ caught |-> TRUE, msg |-> "HTTP " \o ToString(e.code) ]
    ELSE IF IsInstance(e.cls, "Exception")
        THEN [ caught |-> TRUE, msg |-> e.text ]
    ELSE [ caught |-> FALSE, msg |-> "" ]

\* the except clauses, in order; caught is FALSE when none of them matches
except_clauses(e) ==
    IF IsInstance(e.cls, "HTTPError")
        THEN [ caught |-> TRUE, msg |-> "HTTP " \o ToString(e.code) ]
    ELSE IF IsInstance(e.cls, "URLError")
        THEN [ caught |-> TRUE, msg |-> e.reason ]
    ELSE IF IsInstance(e.cls, "Exception")
        THEN [ caught |-> TRUE, msg |-> e.text ]
    ELSE [ caught |-> FALSE, msg |-> "" ]

\* download_file(url, dest_path) as the n-th call of the run, on file system
\* (f, d), under outcome o.  raised # NoExc: the exception left download_file.
download_file(url, dest_path, o, n, f, d) ==
    LET mk == makedirs(d, f, dirname(dest_path), o)
        tb == try_body(url, dest_path, o, n, f)
        ex == except_clauses(tb.exc)
    IN  IF mk.exc # NoExc
            THEN [ raised |-> mk.exc, ok |-> FALSE, msg |-> "", fs |-> f, dirs |-> mk.dirs ]
        ELSE IF tb.exc = NoExc
            THEN [ raised |-> NoExc, ok |-> TRUE, msg |-> FormatKB(Len(tb.data)),
                   fs |-> tb.fs, dirs |-> mk.dirs ]
        ELSE IF ex.caught
            THEN [ raised |-> NoExc, ok |-> FALSE, msg |-> ex.msg,
                   fs |-> tb.fs, dirs |-> mk.dirs ]
        ELSE [ raised |-> tb.exc, ok |-> FALSE, msg |-> "", fs |-> tb.fs, dirs |-> mk.dirs ]

----------------------------------------------------------------------------
(* main *)

\* time.sleep(0.3), in tenths of a second
SleepTenths == 3

\* the working directory os.path.abspath resolves OUTPUT_DIR against
Cwd == "/home/user"

\* variant of tally: a failure is listed but not counted
tally_fail_uncounted(ok, label, url, msg, sc, fc, fl) ==
    IF ok THEN [ success_count |-> sc + 1, fail_count |-> fc, failures |-> fl ]
    ELSE [ success_count |-> sc, fail_count |-> fc,
           failures |-> Append(fl, << label, url, msg >>) ]

\* variant of tally: a failure is put at the front of the list
tally_prepend(ok, label, url, msg, sc, fc, fl) ==
    IF ok THEN [ success_count |-> sc + 1, fail_count |-> fc, failures |-> fl ]
    ELSE [ success_count |-> sc, fail_count |-> fc + 1,
           failures |-> << << label, url, msg >> >> \o fl ]

\* if ok: success_count += 1  else: fail_count += 1; failures.append(...)
tally(ok, label, url, msg, sc, fc, fl) ==
    IF ok THEN [ success_count |-> sc + 1, fail_count |-> fc, failures |-> fl ]
    ELSE [ success_count |-> sc, fail_count |-> fc + 1,
           failures |-> Append(fl, << label, url, msg >>) ]

\* variant of after_tally: the failure branch skips the sleep
after_tally_no_sleep_on_failure(ok) == [ sleeping |-> ok ]

\* after the tally of either branch the loop body ends with time.sleep
after_tally(ok) == [ sleeping |-> TRUE ]

\* the loop after p, or the summary
NextGroup(p) ==
    CASE p = "army" -> "af"
      [] p = "af"   -> "dw"
      [] p = "dw"   -> "dod"
      [] p = "dod"  -> "summary"

\* where main() continues after the sleep of entry k of list p
after_sleep(p, k) ==
    IF k < Len(RunList(p)) THEN << p, k + 1 >> ELSE << NextGroup(p), 1 >>

\* one pass through the body of the loop over list p, up to its time.sleep
Iteration(p) ==
    /\ ~sleeping
    /\ i <= Len(RunList(p))
    /\ LET e == RunEntries[p][i]
           n == Len(calls) + 1
       IN  \E o \in Outcomes(e.out_path, n, fs, returns) :
             LET r == download_file(e.url, e.out_path, o, n, fs, dirs)
                 t == tally(r.ok, e.label, e.url, r.msg,
                            success_count, fail_count, failures)
             IN  /\ calls' = Append(calls, << e.url, e.out_path >>)
                 /\ fs' = r.fs
                 /\ dirs' = r.dirs
                 /\ IF r.raised # NoExc
                    THEN /\ pc' = "crashed"
                         /\ raised' = r.raised
                         /\ UNCHANGED << sleeping, success_count, fail_count,
                                         failures, returns, outcomes >>
                    ELSE /\ returns' = Append(returns, << r.ok, r.msg >>)
                         /\ outcomes' = Append(outcomes, o)
                         /\ success_count' = t.success_count
                         /\ fail_count' = t.fail_count
                         /\ failures' = t.failures
                         /\ sleeping' = after_tally(r.ok).sleeping
                         /\ UNCHANGED << pc, raised >>
    /\ UNCHANGED << i, sleeps, report, pre >>

\* for category, filename, ext in ARMY_FILES
ArmyLoop ==
    /\ pc = "army"
    /\ Iteration("army")

\* for category, filename, ext in AF_FILES
AFLoop ==
    /\ pc = "af"
    /\ Iteration("af")

\* for item in DW_FILES
DWLoop ==
    /\ pc = "dw"
    /\ Iteration("dw")

\* for url, subfolder, fname in DOD_SUMMARY
DoDLoop ==
    /\ pc = "dod"
    /\ Iteration("dod")

\* time.sleep(0.3) at the end of the loop body, then the next entry or loop
Sleep ==
    /\ pc \in {"army", "af", "dw", "dod"}
    /\ sleeping
    /\ sleeps' = Append(sleeps, SleepTenths)
    /\ sleeping' = FALSE
    /\ pc' = after_sleep(pc, i)[1]
    /\ i' = after_sleep(pc, i)[2]
    /\ UNCHANGED << success_count, fail_count, failures, fs, dirs, calls,
                    returns, outcomes, report, raised, pre >>

\* "=" * 80
Rule == "================================================================================"

\* the three lines printed for each element of failures
RECURSIVE FailureLines(_)
FailureLines(fl) ==
    IF fl = << >> THEN << >>
    ELSE << "  FAIL  " \o Head(fl)[1],
            "        URL: " \o Head(fl)[2],
            "        Reason: " \o Head(fl)[3] >> \o FailureLines(Tail(fl))

\* the arguments of the print calls of the summary, one element per call
summary_lines(sc, fc, fl) ==
    LET total == sc + fc
    IN  << "\n" \o Rule,
           "Done. " \o ToString(sc) \o "/" \o ToString(total) \o " files downloaded.",
           "Output directory: " \o Join2(Cwd, OUTPUT_DIR) \o "/" >>
        \o (IF fl # << >>
            THEN << "\nFailed (" \o ToString(fc) \o "):" >> \o FailureLines(fl)
            ELSE << "\nAll files downloaded successfully!" >>)

Summary ==
    /\ pc = "summary"
    /\ report' = report \o summary_lines(success_count, fail_count, failures)
    /\ pc' = "done"
    /\ UNCHANGED << i, sleeping, success_count, fail_count, failures, fs, dirs,
                    calls, returns, outcomes, sleeps, raised, pre >>

----------------------------------------------------------------------------
(* Initial states: main() starts on an empty tree, on the tree of an earlier
   run, or where a regular file has the name of the output directory *)

EmptyTree == [ fs |-> << >>, dirs |-> {} ]

StaleTree ==
    [ fs   |-> [ q \in RunPaths |-> Stale ],
      dirs |-> UNION { Ancestors(dirname(q)) : q \in RunPaths } ]

BlockedTree == [ fs |-> [ q \in {OUTPUT_DIR} |-> Stale ], dirs |-> {} ]

Init ==
    /\ pc = "army"
    /\ i = 1
    /\ sleeping = FALSE
    /\ success_count = 0
    /\ fail_count = 0
    /\ failures = << >>
    /\ \E tree \in {EmptyTree, StaleTree, BlockedTree} :
         /\ fs = tree.fs
         /\ dirs = tree.dirs
         /\ pre = tree.fs
    /\ calls = << >>
    /\ returns = << >>
    /\ outcomes = << >>
    /\ sleeps = << >>
    /\ report = << >>
    /\ raised = NoExc

Next == ArmyLoop \/ AFLoop \/ DWLoop \/ DoDLoop \/ Sleep \/ Summary

Spec == Init /\ [][Next]_vars

----------------------------------------------------------------------------
(* Properties *)

\* number of entries a run walks
N == Len(RunManifest)

\* the download_file calls of a complete run, in order
ExpectedCalls == [ k \in 1..N |-> << RunManifest[k].url, RunManifest[k].out_path >> ]

IsPrefix(s, t) == Len(s) <= Len(t) /\ s = SubSeq(t, 1, Len(s))

\* main() is no longer running
Ended == pc \in {"done", "crashed"}

\* indices of the calls that returned failure, in the order they were made
FailedCalls == SelectSeq([ k \in 1..Len(returns) |-> k ], LAMBDA k : ~returns[k][1])

\* C1: in one run every manifest entry is attempted exactly once, in the order
\* ARMY_FILES, AF_FILES, DW_FILES, DOD_SUMMARY and in list order within each:
\* the calls made so far are a prefix of the manifest's calls, and a run that
\* has ended has made all of them.
C1_EveryEntryAttemptedOnceInOrder ==
    /\ IsPrefix(calls, ExpectedCalls)
    /\ (Ended => calls = ExpectedCalls)

\* C2: download_file never lets an exception out: every call made has returned
\* a (success, message) pair, (False, reason) for every failure, including a
\* failure to create the destination directory, and (True, size) only when the
\* body was fetched and written.
C2_DownloadFileNeverRaises ==
    /\ raised = NoExc
    /\ Len(returns) = Len(calls)
    /\ \A k \in 1..Len(returns) :
         /\ returns[k][1] <=> outcomes[k].stage = "ok"
         /\ returns[k][1] => returns[k][2] = FormatKB(BodyLen(k))

\* C3: success_count + fail_count is the number of entries attempted so far,
\* success_count the number of attempts that returned success, len(failures)
\* is fail_count; the total of the final report is the number of manifest
\* entries, which is 37 + 27 + 25 + 9 = 98 for the full lists.
C3_CountsMatchAttempts ==
    /\ success_count + fail_count = Len(returns)
    /\ (pc # "crashed" => success_count + fail_count = Len(calls))
    /\ success_count = Cardinality({ k \in 1..Len(returns) : returns[k][1] })
    /\ Len(failures) = fail_count
    /\ (pc = "done" =>
          /\ success_count + fail_count = N
          /\ report[2] = "Done. " \o ToString(success_count) \o "/" \o ToString(N)
                           \o " files downloaded.")
    /\ Len(ARMY_FILES) = 37 /\ Len(AF_FILES) = 27
    /\ Len(DW_FILES) = 25 /\ Len(DOD_SUMMARY) = 9
    /\ Len(Manifest) = 98

\* a run finished with both successes and failures tallied
C3_Witness == pc = "done" /\ success_count > 0 /\ fail_count = MaxFail

\* C4: every run ends with the summary printed, exactly once and only after
\* all entries of all four lists were attempted: main() never ends without it,
\* nothing of it is printed before the last entry, and it is printed in full
\* when main() is done.
C4_SummaryPrintedOnceAfterAll ==
    /\ pc # "crashed"
    /\ (report # << >> => pc = "done" /\ Len(returns) = N)
    /\ (pc = "done" => Len(report) = 4 + 3 * fail_count)

\* C5: after each download_file call that returns there is exactly one sleep
\* of the constant interval before the next request: a request starts only
\* with as many sleeps as earlier calls, the sleep follows the last entry of
\* each list too, and the summary comes after the sleep of the last entry.
C5_OneSleepAfterEachCall ==
    /\ \A k \in 1..Len(sleeps) : sleeps[k] = SleepTenths
    /\ (sleeping => Len(sleeps) = Len(returns) - 1)
    /\ (~sleeping => Len(sleeps) = Len(returns))
    /\ (pc \in {"army", "af", "dw", "dod"} /\ ~sleeping => Len(sleeps) = Len(calls))
    /\ (pc \in {"summary", "done"} => Len(sleeps) = N /\ ~sleeping)

\* the first Air Force request is about to start: the sleep after the last
\* Army entry, which failed, has been taken
C5_Witness ==
    /\ pc = "af" /\ i = 1 /\ ~sleeping
    /\ Len(calls) = Len(RunList("army"))
    /\ ~returns[Len(returns)][1]
    /\ Len(sleeps) = Len(calls)

\* C6: whenever download_file returned success for (url, dest_path), dest_path
\* holds exactly the bytes of the response body, whatever it held before; a run
\* in which every download succeeds ends with the same tree whether it started
\* on an empty tree or on the tree of an earlier run.
C6_SuccessWritesBody ==
    /\ \A k \in 1..Len(returns) :
         returns[k][1] =>
           /\ calls[k][2] \in DOMAIN fs
           /\ fs[calls[k][2]] = Response(k)
    /\ (pc = "done" /\ fail_count = 0 =>
          /\ DOMAIN fs = RunPaths
          /\ \A k \in 1..N : fs[RunManifest[k].out_path] = Response(k))

\* every download of a run over the tree of an earlier run succeeded, and
\* every stale file was replaced
C6_Witness ==
    /\ pc = "done" /\ fail_count = 0
    /\ DOMAIN pre = RunPaths
    /\ \A q \in RunPaths : pre[q] = Stale /\ fs[q] # Stale

\* C7: the final report lists exactly the failed entries, once each and in the
\* order attempted, each with its label, the requested URL and the message
\* download_file returned; "All files downloaded successfully!" is printed iff
\* no entry failed, "Failed (n)" iff one did, n being the number listed.
C7_ReportListsFailures ==
    pc = "done" =>
      LET F == FailedCalls
      IN  /\ Len(report) = IF F = << >> THEN 4 ELSE 4 + 3 * Len(F)
          /\ (report[4] = "\nAll files downloaded successfully!") <=> (fail_count = 0)
          /\ (report[4] = "\nFailed (" \o ToString(Len(F)) \o "):") <=> (fail_count > 0)
          /\ \A j \in 1..Len(F) :
               /\ report[3 * j + 2] = "  FAIL  " \o RunManifest[F[j]].label
               /\ report[3 * j + 3] = "        URL: " \o calls[F[j]][1]
               /\ report[3 * j + 4] = "        Reason: " \o returns[F[j]][2]

\* the report of a run with two failures of different kinds
C7_Witness ==
    /\ pc = "done"
    /\ Len(failures) >= 2
    /\ failures[1][3] # failures[2][3]
    /\ Len(report) = 4 + 3 * Len(failures)

\* C8: a failure inside the try block is reported by exactly one of three
\* messages: "HTTP <code>" for an HTTPError, str(reason) for any other
\* URLError, str(exception) for every other exception; the entry is counted
\* as failed and appended to failures with that message.
C8_FailureClassified ==
    /\ \A k \in 1..Len(returns) :
         LET e == outcomes[k].exc
         IN  e # NoExc =>
               /\ ~returns[k][1]
               /\ e.cls = "HTTPError" => returns[k][2] = "HTTP " \o ToString(e.code)
               /\ e.cls = "URLError" => returns[k][2] = e.reason
               /\ e.cls \notin {"HTTPError", "URLError"} => returns[k][2] = e.text
    /\ fail_count = Len(FailedCalls)
    /\ failures = [ j \in 1..Len(FailedCalls) |->
                      << RunManifest[FailedCalls[j]].label,
                         calls[FailedCalls[j]][1],
                         returns[FailedCalls[j]][2] >> ]

\* one run met an HTTP error status and an exception that is no URLError
C8_Witness ==
    /\ \E k \in 1..Len(returns) : outcomes[k].exc = HTTPError404 /\ returns[k] = << FALSE, "HTTP 404" >>
    /\ \E k \in 1..Len(returns) : outcomes[k].exc = ReadTimeout /\ ~returns[k][1]

\* a step in which a download_file call returned failure
FailedCallStep ==
    /\ Len(returns') = Len(returns) + 1
    /\ ~returns'[Len(returns')][1]

\* C9 as stated: a call that returns failure leaves the file at dest_path, and
\* every other file, exactly as it was before the call.
C9_FailedCallLeavesFiles == [][FailedCallStep => fs' = fs]_vars

\* C9 amended: a call that returns failure leaves every file as it was, unless
\* the failure came while writing to the opened destination: then dest_path
\* exists and holds the part of the body written before the error, and every
\* other file is as it was.
C9_FailedCallLeavesFilesUnlessWriting ==
    [][FailedCallStep =>
         LET k    == Len(returns')
             dest == calls'[k][2]
         IN  IF outcomes'[k].stage = "write"
             THEN /\ DOMAIN fs' = DOMAIN fs \cup {dest}
                  /\ IsPrefix(fs'[dest], Response(k))
                  /\ \A q \in DOMAIN fs \ {dest} : fs'[q] = fs[q]
             ELSE fs' = fs]_vars

\* a failed write replaced a file of an earlier run by a part of the body that
\* is neither empty nor the whole body, and another failed call left its
\* destination alone
C9_Witness ==
    /\ \E k \in 1..Len(returns) :
         /\ ~returns[k][1] /\ outcomes[k].stage = "write"
         /\ calls[k][2] \in DOMAIN pre
         /\ fs[calls[k][2]] # pre[calls[k][2]]
         /\ 0 < Len(fs[calls[k][2]])
         /\ Len(fs[calls[k][2]]) < BodyLen(k)
    /\ \E k \in 1..Len(returns) :
         /\ ~returns[k][1] /\ outcomes[k].stage = "urlopen"
         /\ fs[calls[k][2]] = pre[calls[k][2]]

\* the destination paths of all entries of the four lists are pairwise distinct
PathsDistinct ==
    \A j, k \in 1..Len(Manifest) :
      j # k => Manifest[j].out_path # Manifest[k].out_path

\* no two successful downloads of the run wrote the same path
NoSuccessOverwritten ==
    \A j, k \in 1..Len(returns) :
      j # k /\ returns[j][1] /\ returns[k][1] => calls[j][2] # calls[k][2]

\* calls of the run that failed while writing to the opened destination
FailedWrites == { k \in 1..Len(returns) : outcomes[k].stage = "write" }

\* C10 as stated: the destination paths are pairwise distinct, no successful
\* download overwrites the file of another entry, and after a run on an empty
\* tree the number of files equals success_count.
C10_DistinctPathsFilesEqualSuccesses ==
    /\ PathsDistinct
    /\ NoSuccessOverwritten
    /\ (pc = "done" /\ DOMAIN pre = {} => Cardinality(DOMAIN fs) = success_count)

\* C10 amended: the destination paths are pairwise distinct, no successful
\* download overwrites the file of another entry, and on a tree that was empty
\* the number of files equals success_count plus the number of calls that
\* failed while writing to the opened destination.
C10_DistinctPathsFilesCounted ==
    /\ PathsDistinct
    /\ NoSuccessOverwritten
    /\ (DOMAIN pre = {} =>
          Cardinality(DOMAIN fs) = success_count + Cardinality(FailedWrites))

\* a finished run on an empty tree with successes and a failed write
C10_Witness ==
    /\ pc = "done"
    /\ DOMAIN pre = {}
    /\ success_count > 0
    /\ FailedWrites # {}
    /\ Cardinality(DOMAIN fs) = success_count + 1
====
